---- MODULE Spec2Model ----
(***************************************************************************)
(* Model of the yellowstone-grpc-kafka bridge (src/src/bin/grpc-kafka.rs): *)
(* the grpc2kafka ingest stage with its endpoint ring, the dedup stage,    *)
(* the publish tasks both stages keep in a JoinSet, the kafka2grpc stage   *)
(* with its broadcast sink, the shutdown and Kafka-fatal futures every     *)
(* select! of the stages polls, and main, which joins the selected stage   *)
(* with the HTTP health server.                                            *)
(*                                                                         *)
(* Strings are sequences of one-character strings, byte strings are        *)
(* sequences of numbers in 0..255.                                         *)
(***************************************************************************)
EXTENDS Integers, Sequences, FiniteSets, TLC

\* ------------------------------------------------------------------ bounds
\* largest number of configured endpoints
MaxEndpoints == 2
\* largest kafka_queue_size
MaxQueue == 2
\* number of published updates (grpc2kafka) or of Kafka messages (dedup,
\* kafka2grpc) a run receives
MaxUpdates == 2

\* ------------------------------------------------------- program constants
\* length of a SHA-256 digest, and of the [u8; 32] the dedup stage decodes to
DigestLen == 32

\* ------------------------------------------------------------ byte strings
HexDigits == <<"0", "1", "2", "3", "4", "5", "6", "7",
               "8", "9", "a", "b", "c", "d", "e", "f">>

DecDigits == <<"0", "1", "2", "3", "4", "5", "6", "7", "8", "9">>

RECURSIVE SumBytes(_)
SumBytes(bytes) ==
    IF bytes = <<>> THEN 0 ELSE Head(bytes) + SumBytes(Tail(bytes))

\* stand-in for SHA-256: a DigestLen-byte digest that depends on every byte
\* of the input and on its length
Sha256_digest(bytes) ==
    LET sum == SumBytes(bytes)
        len == Len(bytes)
    IN  [i \in 1..DigestLen |-> (sum * i + len + 7 * i) % 256]

\* const_hex::encode: two lower-case digits per byte, high nibble first
const_hex_encode(bytes) ==
    [i \in 1..(2 * Len(bytes)) |->
        LET b == bytes[(i + 1) \div 2]
        IN  IF i % 2 = 1 THEN HexDigits[(b \div 16) + 1] ELSE HexDigits[(b % 16) + 1]]

\* Display of a u64: decimal, no leading zeros
RECURSIVE format_u64(_)
format_u64(n) ==
    IF n < 10 THEN <<DecDigits[n + 1]>>
    ELSE format_u64(n \div 10) \o <<DecDigits[(n % 10) + 1]>>

\* format!("{slot}_{}", const_hex::encode(hash))
format_key(slot, hash) == format_u64(slot) \o <<"_">> \o const_hex_encode(hash)

\* ------------------------------------------------------------------ inputs
\* slots carried by the updates of a run
Slots == {7, 12}

NoBody == "None"

\* transaction bodies: one the generated schema decodes, one it rejects
TxBodies == {"tx_ok", "tx_undecodable"}

SlotKinds == {"Account", "Slot", "TransactionStatus", "Block", "BlockMeta", "Entry"}

\* SubscribeUpdate.update_oneof: the values geyser.next() can yield
Updates ==
    [kind : {"Transaction"}, slot : Slots, transaction : {"tx_ok"}]
    \cup [kind : {"Transaction"}, slot : {7}, transaction : {NoBody, "tx_undecodable"}]
    \cup [kind : SlotKinds, slot : {7}, transaction : {NoBody}]
    \cup [kind : {"Ping", "Pong"}, slot : {0}, transaction : {NoBody}]

NoUpdate == [kind |-> "none", slot |-> 0, transaction |-> NoBody]

\* transaction.encode_to_vec()
encode_to_vec(body) ==
    IF body = "tx_ok" THEN <<10, 2, 1, 2>> ELSE <<255, 1>>

\* SubscribeUpdateTransactionInfo::decode(tx_data)
TransactionInfo_decode(tx_data) ==
    IF Head(tx_data) = 10 THEN [ok |-> TRUE, tx |-> Tail(tx_data)]
    ELSE [ok |-> FALSE, tx |-> <<>>]

\* serde_json::to_string(&tx).unwrap().into_bytes()
serde_json_to_bytes(tx) == <<123>> \o tx \o <<125>>

\* Option::None of a payload (no byte string has a negative element)
NoPayload == <<-1>>

\* the payload the Transaction arm computes (msg.transaction.as_ref().and_then)
transaction_payload(body) ==
    IF body = NoBody THEN NoPayload
    ELSE LET tx_data == encode_to_vec(body)
             dec == TransactionInfo_decode(tx_data)
         IN  IF dec.ok THEN serde_json_to_bytes(dec.tx) ELSE NoPayload

\* line 321 as it was: a payload for every update (message.encode_to_vec())
update_payload_all_variants(u) ==
    IF u.kind = "Transaction" THEN transaction_payload(u.transaction)
    ELSE <<Len(u.kind), u.slot>>

\* the payload of an update after the match on update_oneof
update_payload(u) ==
    IF u.kind = "Transaction" THEN transaction_payload(u.transaction) ELSE NoPayload

\* the key hashed over tx_data, the payload still the JSON
grpc2kafka_record_hash_of_tx_data(u) ==
    LET send_data == update_payload(u)
        hash == Sha256_digest(encode_to_vec(u.transaction))
    IN  [key |-> format_key(u.slot, hash), payload |-> send_data,
         slot |-> u.slot, hash |-> hash, kind |-> u.kind, src |-> u]

\* the record grpc2kafka hands to the producer for an update with a payload
grpc2kafka_record(u) ==
    LET send_data == update_payload(u)
        hash == Sha256_digest(send_data)
    IN  [key |-> format_key(u.slot, hash), payload |-> send_data,
         slot |-> u.slot, hash |-> hash, kind |-> u.kind, src |-> u]

\* ------------------------------------------------------------ key parsing
\* Option::None of a string, and of a decoded byte array
NoString == <<"None">>
NoBytes == <<-1>>

UpperHexDigits == <<"0", "1", "2", "3", "4", "5", "6", "7",
                    "8", "9", "A", "B", "C", "D", "E", "F">>

\* a byte that is not valid UTF-8, as an element of a key
InvalidUtf8 == "\\xff"

\* String::from_utf8(k.to_vec()).ok()
String_from_utf8(k) ==
    IF \E i \in 1..Len(k) : k[i] = InvalidUtf8 THEN NoString ELSE k

\* key.split_once('_'): the parts around the first '_', <<>> for None
split_once(str) ==
    IF \E i \in 1..Len(str) : str[i] = "_"
    THEN LET i == CHOOSE i \in 1..Len(str) :
                      str[i] = "_" /\ \A j \in 1..(i - 1) : str[j] # "_"
         IN  <<SubSeq(str, 1, i - 1), SubSeq(str, i + 1, Len(str))>>
    ELSE <<>>

digit_value(c) == (CHOOSE i \in 1..10 : DecDigits[i] = c) - 1

IsDigit(c) == \E i \in 1..10 : DecDigits[i] = c

RECURSIVE digits_value(_)
digits_value(ds) ==
    IF ds = <<>> THEN 0
    ELSE digits_value(SubSeq(ds, 1, Len(ds) - 1)) * 10 + digit_value(ds[Len(ds)])

\* slot.parse::<u64>().ok(): an optional '+', then one or more decimal digits
\* (the keys of the model have at most 9 digits, far below u64::MAX)
parse_u64(str) ==
    LET ds == IF str # <<>> /\ Head(str) = "+" THEN Tail(str) ELSE str
    IN  IF ds # <<>> /\ \A i \in 1..Len(ds) : IsDigit(ds[i])
        THEN digits_value(ds)
        ELSE -1

IsHexDigit(c) == \E i \in 1..16 : HexDigits[i] = c \/ UpperHexDigits[i] = c

hex_value(c) == (CHOOSE i \in 1..16 : HexDigits[i] = c \/ UpperHexDigits[i] = c) - 1

\* const_hex::decode_to_slice(hash, &mut bytes) for bytes: [u8; 32]: an optional
\* "0x" is stripped, the rest must be 2 * 32 hex digits of either case
decode_to_slice(str) ==
    LET hex == IF Len(str) >= 2 /\ str[1] = "0" /\ str[2] = "x"
               THEN SubSeq(str, 3, Len(str)) ELSE str
    IN  IF Len(hex) = 2 * DigestLen /\ \A i \in 1..Len(hex) : IsHexDigit(hex[i])
        THEN [i \in 1..DigestLen |->
                 16 * hex_value(hex[2 * i - 1]) + hex_value(hex[2 * i])]
        ELSE NoBytes

NoKey == <<"NoKey">>

NotParsed == [ok |-> FALSE, slot |-> 0, hash |-> <<>>, bytes |-> NoBytes]

\* (slot, hash, bytes) of a consumed message; ok is FALSE when the loop
\* continues
dedup_parse(m) ==
    LET key == IF m.key = NoKey THEN NoString ELSE String_from_utf8(m.key)
    IN  IF key = NoString \/ m.payload = NoPayload THEN NotParsed
        ELSE LET parts == split_once(key)
             IN  IF Len(parts) = 0 THEN NotParsed
                 ELSE LET slot == parse_u64(parts[1])
                          bytes == decode_to_slice(parts[2])
                      IN  IF slot = -1 \/ bytes = NoBytes THEN NotParsed
                          ELSE [ok |-> TRUE, slot |-> slot, hash |-> parts[2],
                                bytes |-> bytes]

\* the payloads and keys on kafka_input
Payload1 == <<1>>
Payload2 == <<2, 3>>
Key1 == format_key(5, Sha256_digest(Payload1))
Key2 == format_key(12, Sha256_digest(Payload2))

\* Key1 with the hash written as 0x and upper-case digits
Key1Alias ==
    <<"5", "_", "0", "x">>
    \o [i \in 1..(2 * DigestLen) |->
           UpperHexDigits[hex_value(const_hex_encode(Sha256_digest(Payload1))[i]) + 1]]

\* the messages consumer.recv() can yield
Messages ==
    { [key |-> Key1, payload |-> Payload1],
      [key |-> Key2, payload |-> Payload2],
      [key |-> Key1Alias, payload |-> Payload1],
      [key |-> NoKey, payload |-> Payload1],
      [key |-> Key1, payload |-> NoPayload],
      [key |-> <<InvalidUtf8>> \o Key1, payload |-> Payload1],
      [key |-> <<"5">> \o const_hex_encode(Sha256_digest(Payload1)), payload |-> Payload1],
      [key |-> <<"s">> \o Key1, payload |-> Payload1],
      [key |-> <<"5", "_", "a", "b", "c", "d">>, payload |-> Payload1] }

\* ------------------------------------------------------------------- state
VARIABLES
    action,            \* ArgsAction: the stage that runs
    pc,                \* position of the stage's loop
    result,            \* "running", or how the stage ended
    shutdown,          \* the shutdown future: "pending", "fired", "done"
    prod_fatal,        \* the producer's fatal sideband has fired
    cons_fatal,        \* the consumer's fatal sideband has fired (dedup)
    kafka_error_rx,    \* the pinned sideband future: "pending" or "done"
    kafka_error,       \* the local flag
    kafka_queue_size,  \* config.kafka_queue_size
    ep_count,          \* endpoints.len()
    ep_idx,            \* the endpoint cursor
    ep,                \* index of the endpoint of the current attempt
    failed_ep,         \* index of the endpoint whose attempt just failed
    send_tasks,        \* the JoinSet: the tasks spawned and not yet joined
    next_id,           \* number of tasks spawned so far
    produced,          \* the records handed to kafka.send_result, in order
    message,           \* the update or Kafka message being handled
    seen,              \* the dedup backend's store
    sent_total,        \* metrics::sent_inc, per kind
    dedup_total,       \* metrics::dedup_inc
    recv_total,        \* metrics::recv_inc
    grpc_tx,           \* the calls of grpc_tx.send(), in order (kafka2grpc)
    grpc_shutdown,     \* the server's shutdown handle: "pending", "Ok", "Err"
    actix_srv,         \* the HTTP health server: "running", "Ok", "Err"
    exit               \* the exit status of the process, NoExit while it runs

vars == <<action, pc, result, shutdown, prod_fatal, cons_fatal, kafka_error_rx,
          kafka_error, kafka_queue_size, ep_count, ep_idx, ep, failed_ep,
          send_tasks, next_id, produced, message, seen, sent_total,
          dedup_total, recv_total, grpc_tx, grpc_shutdown, actix_srv, exit>>

NoEp == -1

MetricKinds == {"Transaction", "Unknown"}

\* the futures the selects poll besides the stream
env_vars == <<shutdown, prod_fatal, cons_fatal>>
cfg_vars == <<action, kafka_queue_size, ep_count>>
metric_vars == <<sent_total, dedup_total, recv_total>>
\* the state outside the publishing stages: the fan-out sink of kafka2grpc,
\* and main's health server and exit status
outer_vars == <<grpc_tx, grpc_shutdown, actix_srv, exit>>

\* --------------------------------------------------------- select! branches
\* `_ = &mut shutdown` is ready
shutdown_ready == shutdown = "fired"

\* `_ = &mut kafka_error_rx` is ready: the producer's channel in grpc2kafka,
\* futures::future::join of the consumer's and the producer's in dedup, the
\* consumer's channel in kafka2grpc
kafka_error_rx_ready ==
    /\ kafka_error_rx = "pending"
    /\ action \in {"grpc2kafka", "dedup"} => prod_fatal
    /\ action \in {"dedup", "kafka2grpc"} => cons_fatal

\* a select! polls a future that has already completed: the poll panics
polled_after_completion(futures) ==
    \/ "shutdown" \in futures /\ shutdown = "done"
    \/ "kafka_error_rx" \in futures /\ kafka_error_rx = "done"

\* the tasks join_next() can return
finished_tasks == {t \in send_tasks : t.st \in {"ok", "err"}}

running == result = "running"

\* the check with > in place of >=
queue_is_full_off_by_one(len, size) == len > size

\* send_tasks.len() >= config.kafka_queue_size
queue_is_full(len, size) == len >= size

\* a producer that puts a record at the head of its queue
kafka_send_result_at_head(queue, record) == <<record>> \o queue

\* kafka.send_result(record) is Ok(future): the record joins the producer's
\* queue behind the records enqueued before it
kafka_send_result(queue, record) == Append(queue, record)

\* `return Err(..)` / `?`: the stage ends, the JoinSet is dropped
return_err ==
    /\ result' = "Err"
    /\ pc' = "returned"
    /\ send_tasks' = {}

\* ------------------------------------------------------------- environment
\* SIGINT or SIGTERM arrives
create_shutdown ==
    /\ running
    /\ shutdown = "pending"
    /\ shutdown' = "fired"
    /\ UNCHANGED <<outer_vars, action, pc, result, prod_fatal, cons_fatal, kafka_error_rx,
                   kafka_error, kafka_queue_size, ep_count, ep_idx, ep, failed_ep,
                   send_tasks, next_id, produced, message, seen,
                   sent_total, dedup_total, recv_total>>

\* the producer's fatal sideband fires (kafka2grpc has no producer)
producer_fatal ==
    /\ running
    /\ action \in {"grpc2kafka", "dedup"}
    /\ ~prod_fatal
    /\ prod_fatal' = TRUE
    /\ UNCHANGED <<outer_vars, action, pc, result, shutdown, cons_fatal, kafka_error_rx,
                   kafka_error, kafka_queue_size, ep_count, ep_idx, ep, failed_ep,
                   send_tasks, next_id, produced, message, seen,
                   sent_total, dedup_total, recv_total>>

\* the consumer's fatal sideband fires (grpc2kafka has no consumer)
consumer_fatal ==
    /\ running
    /\ action \in {"dedup", "kafka2grpc"}
    /\ ~cons_fatal
    /\ cons_fatal' = TRUE
    /\ UNCHANGED <<outer_vars, action, pc, result, shutdown, prod_fatal, kafka_error_rx,
                   kafka_error, kafka_queue_size, ep_count, ep_idx, ep, failed_ep,
                   send_tasks, next_id, produced, message, seen,
                   sent_total, dedup_total, recv_total>>

\* ------------------------------------------------------------ publish tasks
sent_inc(kind) == sent_total' = [sent_total EXCEPT ![kind] = @ + 1]

set_task(t, st) == send_tasks' = (send_tasks \ {t}) \cup {[t EXCEPT !.st = st]}

\* the producer's delivery future of a task resolves: acknowledged, or failed
task_send_done ==
    /\ running
    /\ \E t \in send_tasks :
        /\ t.st = "sending"
        /\ \E delivered \in BOOLEAN :
            IF delivered
            THEN /\ sent_inc(t.kind)
                 /\ set_task(t, "ok")
            ELSE /\ set_task(t, "err")
                 /\ UNCHANGED sent_total
    /\ UNCHANGED <<outer_vars, action, pc, result, shutdown, prod_fatal, cons_fatal,
                   kafka_error_rx, kafka_error, kafka_queue_size, ep_count,
                   ep_idx, ep, failed_ep, next_id, produced, message,
                   seen, dedup_total, recv_total>>

\* --------------------------------------------------------------- grpc2kafka
in_grpc2kafka(at) == action = "grpc2kafka" /\ running /\ pc = at

\* the advance without the wrap
next_endpoint_nowrap(idx, count) == idx + 1

\* ep_idx = (ep_idx + 1) % ep_count
next_endpoint(idx, count) == (idx + 1) % count

\* the top of the outer loop: let ep = &endpoints[ep_idx]. The endpoints and
\* the token of the model are well formed: the `?` of the client builder
\* (lines 256-260) does not return.
grpc2kafka_next_attempt ==
    /\ pc' = "connect"
    /\ ep' = ep_idx

\* an outer loop that keeps the JoinSet of the stream that ended
grpc2kafka_after_stream_keeping_tasks(flag) ==
    IF flag
    THEN /\ grpc2kafka_next_attempt
         /\ send_tasks' = send_tasks
    ELSE /\ pc' = "drain"
         /\ UNCHANGED <<ep, send_tasks>>

\* the end of 'stream_loop by break: the drain unless kafka_error is set,
\* then the next iteration of the outer loop (which drops the JoinSet)
grpc2kafka_after_stream(flag) ==
    IF flag
    THEN /\ grpc2kafka_next_attempt
         /\ send_tasks' = {}
    ELSE /\ pc' = "drain"
         /\ UNCHANGED <<ep, send_tasks>>

\* the panic of a poll after completion ends the process
grpc2kafka_panic ==
    /\ result' = "panic"
    /\ pc' = "returned"
    /\ send_tasks' = {}

\* builder.connect().await is Ok
grpc2kafka_connect_ok ==
    /\ in_grpc2kafka("connect")
    /\ pc' = "subscribe"
    /\ failed_ep' = NoEp
    /\ UNCHANGED <<outer_vars, cfg_vars, env_vars, metric_vars, result, kafka_error_rx,
                   kafka_error, ep_idx, ep, send_tasks, next_id, produced,
                   message, seen>>

\* builder.connect().await is Err: advance, thread::sleep, continue
grpc2kafka_connect_failed ==
    /\ in_grpc2kafka("connect")
    /\ ep_idx' = next_endpoint(ep_idx, ep_count)
    /\ failed_ep' = ep
    /\ pc' = "backoff"
    /\ UNCHANGED <<outer_vars, cfg_vars, env_vars, metric_vars, result, kafka_error_rx,
                   kafka_error, ep, send_tasks, next_id, produced,
                   message, seen>>

\* client.subscribe_once(..).await is Ok: the stream loop starts on a new JoinSet
grpc2kafka_subscribe_ok ==
    /\ in_grpc2kafka("subscribe")
    /\ pc' = "select"
    /\ send_tasks' = {}
    /\ UNCHANGED <<outer_vars, cfg_vars, env_vars, metric_vars, result, kafka_error_rx,
                   kafka_error, ep_idx, ep, failed_ep, next_id, produced,
                   message, seen>>

\* client.subscribe_once(..).await is Err: advance, thread::sleep, continue
grpc2kafka_subscribe_failed ==
    /\ in_grpc2kafka("subscribe")
    /\ ep_idx' = next_endpoint(ep_idx, ep_count)
    /\ failed_ep' = ep
    /\ pc' = "backoff"
    /\ UNCHANGED <<outer_vars, cfg_vars, env_vars, metric_vars, result, kafka_error_rx,
                   kafka_error, ep, send_tasks, next_id, produced,
                   message, seen>>

\* thread::sleep(2000 ms) after a failed connect or subscribe returns; continue
grpc2kafka_backoff_done ==
    /\ in_grpc2kafka("backoff")
    /\ grpc2kafka_next_attempt
    /\ UNCHANGED <<outer_vars, cfg_vars, env_vars, metric_vars, result, kafka_error_rx,
                   kafka_error, ep_idx, failed_ep, send_tasks, next_id,
                   produced, message, seen>>

\* main select!: `_ = &mut shutdown => break`
grpc2kafka_select_shutdown ==
    /\ in_grpc2kafka("select")
    /\ shutdown_ready
    /\ shutdown' = "done"
    /\ grpc2kafka_after_stream(kafka_error)
    /\ UNCHANGED <<outer_vars, cfg_vars, metric_vars, result, prod_fatal, cons_fatal,
                   kafka_error_rx, kafka_error, ep_idx, failed_ep, next_id,
                   produced, message, seen>>

\* main select!: `_ = &mut kafka_error_rx => { kafka_error = true; break }`
grpc2kafka_select_kafka_error ==
    /\ in_grpc2kafka("select")
    /\ kafka_error_rx_ready
    /\ kafka_error_rx' = "done"
    /\ kafka_error' = TRUE
    /\ grpc2kafka_after_stream(TRUE)
    /\ UNCHANGED <<outer_vars, cfg_vars, env_vars, metric_vars, result, ep_idx, failed_ep,
                   next_id, produced, message, seen>>

\* main select!: send_tasks.join_next() is Some(result): result??; continue
grpc2kafka_select_join ==
    /\ in_grpc2kafka("select")
    /\ \E t \in finished_tasks :
        IF t.st = "ok"
        THEN /\ send_tasks' = send_tasks \ {t}
             /\ UNCHANGED <<pc, result>>
        ELSE return_err
    /\ UNCHANGED <<outer_vars, cfg_vars, env_vars, metric_vars, kafka_error_rx, kafka_error,
                   ep_idx, ep, failed_ep, next_id, produced, message, seen>>

\* main select! polls shutdown or kafka_error_rx after it has completed
grpc2kafka_select_panic ==
    /\ in_grpc2kafka("select")
    /\ polled_after_completion({"shutdown", "kafka_error_rx"})
    /\ grpc2kafka_panic
    /\ UNCHANGED <<outer_vars, cfg_vars, env_vars, metric_vars, kafka_error_rx, kafka_error,
                   ep_idx, ep, failed_ep, next_id, produced, message, seen>>

\* lines 410-411: ep_idx = (ep_idx + 1) % ep_count; thread::sleep(2000 ms)
grpc2kafka_end_of_iteration ==
    /\ ep_idx' = next_endpoint(ep_idx, ep_count)
    /\ pc' = "sleep_stream"

\* geyser.next() is Ok(Some(msg)): message = msg
grpc2kafka_recv_update ==
    /\ in_grpc2kafka("select")
    /\ \E u \in Updates :
        /\ Len(produced) < MaxUpdates \/ update_payload(u) = NoPayload
        /\ message' = u
    /\ pc' = "match"
    /\ UNCHANGED <<outer_vars, cfg_vars, env_vars, metric_vars, result, kafka_error_rx,
                   kafka_error, ep_idx, ep, failed_ep, send_tasks, next_id,
                   produced, seen>>

\* the arm Ok(Some(msg)): the match on update_oneof, the record, send_result
\* and the spawn
grpc2kafka_handle_update ==
    /\ in_grpc2kafka("match")
    /\ message' = NoUpdate
    /\ IF message.kind \in {"Ping", "Pong"} \/ update_payload(message) = NoPayload
       THEN \* continue
            /\ pc' = "select"
            /\ UNCHANGED <<result, ep_idx, send_tasks, next_id, produced>>
       ELSE \E enqueued \in BOOLEAN :
            IF enqueued
            THEN LET record == grpc2kafka_record(message)
                     task == [id |-> next_id, st |-> "sending",
                              key |-> record.key, payload |-> record.payload,
                              slot |-> record.slot, hash |-> record.hash,
                              kind |-> record.kind]
                 IN  /\ produced' = kafka_send_result(produced, record)
                     /\ send_tasks' = send_tasks \cup {task}
                     /\ next_id' = next_id + 1
                     /\ result' = result
                     /\ IF queue_is_full(Cardinality(send_tasks'), kafka_queue_size)
                        THEN pc' = "queue_full" /\ ep_idx' = ep_idx
                        ELSE grpc2kafka_end_of_iteration
            ELSE \* Err(error) => return Err(error.0.into())
                 /\ return_err
                 /\ UNCHANGED <<ep_idx, next_id, produced>>
    /\ UNCHANGED <<outer_vars, cfg_vars, env_vars, metric_vars, kafka_error_rx, kafka_error,
                   ep, failed_ep, seen>>

\* geyser.next() is Ok(None): break 'stream_loop
grpc2kafka_stream_closed ==
    /\ in_grpc2kafka("select")
    /\ failed_ep' = ep
    /\ grpc2kafka_after_stream(kafka_error)
    /\ UNCHANGED <<outer_vars, cfg_vars, env_vars, metric_vars, result, kafka_error_rx,
                   kafka_error, ep_idx, next_id, produced, message, seen>>

\* a stream error that is returned as the stage's error
grpc2kafka_stream_error_fatal ==
    /\ in_grpc2kafka("select")
    /\ failed_ep' = ep
    /\ return_err
    /\ UNCHANGED <<outer_vars, cfg_vars, env_vars, metric_vars, kafka_error_rx,
                   kafka_error, ep_idx, ep, next_id, produced, message, seen>>

\* geyser.next() is Err(status): break 'stream_loop
grpc2kafka_stream_error ==
    /\ in_grpc2kafka("select")
    /\ failed_ep' = ep
    /\ grpc2kafka_after_stream(kafka_error)
    /\ UNCHANGED <<outer_vars, cfg_vars, env_vars, metric_vars, result, kafka_error_rx,
                   kafka_error, ep_idx, next_id, produced, message, seen>>

\* the select! taken when send_tasks.len() >= kafka_queue_size: shutdown
grpc2kafka_queue_full_shutdown ==
    /\ in_grpc2kafka("queue_full")
    /\ shutdown_ready
    /\ shutdown' = "done"
    /\ grpc2kafka_after_stream(kafka_error)
    /\ UNCHANGED <<outer_vars, cfg_vars, metric_vars, result, prod_fatal, cons_fatal,
                   kafka_error_rx, kafka_error, ep_idx, failed_ep, next_id,
                   produced, message, seen>>

\* the same select!: kafka_error_rx
grpc2kafka_queue_full_kafka_error ==
    /\ in_grpc2kafka("queue_full")
    /\ kafka_error_rx_ready
    /\ kafka_error_rx' = "done"
    /\ kafka_error' = TRUE
    /\ grpc2kafka_after_stream(TRUE)
    /\ UNCHANGED <<outer_vars, cfg_vars, env_vars, metric_vars, result, ep_idx, failed_ep,
                   next_id, produced, message, seen>>

\* the same select!: join_next() returns a task; result??, then lines 410-411
grpc2kafka_queue_full_join ==
    /\ in_grpc2kafka("queue_full")
    /\ \E t \in finished_tasks :
        IF t.st = "ok"
        THEN /\ send_tasks' = send_tasks \ {t}
             /\ grpc2kafka_end_of_iteration
             /\ result' = result
        ELSE /\ return_err
             /\ ep_idx' = ep_idx
    /\ UNCHANGED <<outer_vars, cfg_vars, env_vars, metric_vars, kafka_error_rx, kafka_error,
                   ep, failed_ep, next_id, produced, message, seen>>

\* the same select! polls a completed future
grpc2kafka_queue_full_panic ==
    /\ in_grpc2kafka("queue_full")
    /\ polled_after_completion({"shutdown", "kafka_error_rx"})
    /\ grpc2kafka_panic
    /\ UNCHANGED <<outer_vars, cfg_vars, env_vars, metric_vars, kafka_error_rx, kafka_error,
                   ep_idx, ep, failed_ep, next_id, produced, message, seen>>

\* thread::sleep(2000 ms) at the end of a stream-loop iteration returns
grpc2kafka_stream_sleep_done ==
    /\ in_grpc2kafka("sleep_stream")
    /\ pc' = "select"
    /\ UNCHANGED <<outer_vars, cfg_vars, env_vars, metric_vars, result, kafka_error_rx,
                   kafka_error, ep_idx, ep, failed_ep, send_tasks, next_id,
                   produced, message, seen>>

\* a drain that discards the result of a joined task
grpc2kafka_drain_join_ignoring_result ==
    /\ in_grpc2kafka("drain")
    /\ \E t \in finished_tasks :
        /\ send_tasks' = send_tasks \ {t}
        /\ UNCHANGED <<pc, result>>
    /\ UNCHANGED <<outer_vars, cfg_vars, env_vars, metric_vars, kafka_error_rx, kafka_error,
                   ep_idx, ep, failed_ep, next_id, produced, message, seen>>

\* drain loop: join_next() is Some(result) => result??
grpc2kafka_drain_join ==
    /\ in_grpc2kafka("drain")
    /\ \E t \in finished_tasks :
        IF t.st = "ok"
        THEN /\ send_tasks' = send_tasks \ {t}
             /\ UNCHANGED <<pc, result>>
        ELSE return_err
    /\ UNCHANGED <<outer_vars, cfg_vars, env_vars, metric_vars, kafka_error_rx, kafka_error,
                   ep_idx, ep, failed_ep, next_id, produced, message, seen>>

\* drain loop: join_next() is None => break; the outer loop iterates
grpc2kafka_drain_done ==
    /\ in_grpc2kafka("drain")
    /\ send_tasks = {}
    /\ grpc2kafka_next_attempt
    /\ UNCHANGED <<outer_vars, cfg_vars, env_vars, metric_vars, result, kafka_error_rx,
                   kafka_error, ep_idx, failed_ep, send_tasks, next_id,
                   produced, message, seen>>

\* drain loop: `_ = &mut kafka_error_rx => break`; the outer loop iterates
grpc2kafka_drain_kafka_error ==
    /\ in_grpc2kafka("drain")
    /\ kafka_error_rx_ready
    /\ kafka_error_rx' = "done"
    /\ grpc2kafka_next_attempt
    /\ send_tasks' = {}
    /\ UNCHANGED <<outer_vars, cfg_vars, env_vars, metric_vars, result, kafka_error,
                   ep_idx, failed_ep, next_id, produced, message, seen>>

\* drain loop polls kafka_error_rx after it has completed
grpc2kafka_drain_panic ==
    /\ in_grpc2kafka("drain")
    /\ polled_after_completion({"kafka_error_rx"})
    /\ grpc2kafka_panic
    /\ UNCHANGED <<outer_vars, cfg_vars, env_vars, metric_vars, kafka_error_rx, kafka_error,
                   ep_idx, ep, failed_ep, next_id, produced, message, seen>>

grpc2kafka ==
    \/ grpc2kafka_connect_ok
    \/ grpc2kafka_connect_failed
    \/ grpc2kafka_subscribe_ok
    \/ grpc2kafka_subscribe_failed
    \/ grpc2kafka_backoff_done
    \/ grpc2kafka_select_shutdown
    \/ grpc2kafka_select_kafka_error
    \/ grpc2kafka_select_join
    \/ grpc2kafka_select_panic
    \/ grpc2kafka_recv_update
    \/ grpc2kafka_handle_update
    \/ grpc2kafka_stream_closed
    \/ grpc2kafka_stream_error
    \/ grpc2kafka_queue_full_shutdown
    \/ grpc2kafka_queue_full_kafka_error
    \/ grpc2kafka_queue_full_join
    \/ grpc2kafka_queue_full_panic
    \/ grpc2kafka_stream_sleep_done
    \/ grpc2kafka_drain_join
    \/ grpc2kafka_drain_done
    \/ grpc2kafka_drain_kafka_error
    \/ grpc2kafka_drain_panic

\* -------------------------------------------------------------------- dedup
in_dedup(at) == action = "dedup" /\ running /\ pc = at

\* the backend's allowed(slot, hash): true for the first call with a pair
dedup_allowed(store, slot, bytes) == <<slot, bytes>> \notin store

\* a task that republishes whatever the backend answers
task_publishes_always(store, slot, bytes) == TRUE

\* whether the task republishes: `if dedup.allowed(slot, bytes).await`
task_publishes(store, slot, bytes) == dedup_allowed(store, slot, bytes)

\* Ok(()) at the end of dedup; the JoinSet is dropped
dedup_return_ok ==
    /\ result' = "Ok"
    /\ pc' = "returned"
    /\ send_tasks' = {}

\* a record that carries the key rebuilt from the parsed slot and hash
dedup_record_rebuilt_key(t) ==
    [key |-> format_key(t.slot, t.hash), payload |-> t.payload, slot |-> t.slot,
     hash |-> t.hash, kind |-> t.kind, src |-> t.id]

\* FutureRecord::to(&kafka_output).key(&key).payload(&payload): the key and the
\* payload the task captured from the consumed message
dedup_record(t) ==
    [key |-> t.key, payload |-> t.payload, slot |-> t.slot,
     hash |-> t.hash, kind |-> t.kind, src |-> t.id]

\* a spawned task runs up to the delivery future: allowed(), then either
\* send_result (Ok(future) or Err) or dedup_inc
dedup_task_allowed ==
    /\ action = "dedup"
    /\ running
    /\ \E t \in send_tasks :
        /\ t.st = "start"
        /\ IF task_publishes(seen, t.slot, t.hash)
           THEN /\ seen' = seen \cup {<<t.slot, t.hash>>}
                /\ dedup_total' = dedup_total
                /\ \E enqueued \in BOOLEAN :
                    IF enqueued
                    THEN /\ produced' = kafka_send_result(produced, dedup_record(t))
                         /\ set_task(t, "sending")
                    ELSE /\ produced' = produced
                         /\ set_task(t, "err")
           ELSE /\ seen' = seen \cup {<<t.slot, t.hash>>}
                /\ dedup_total' = dedup_total + 1
                /\ produced' = produced
                /\ set_task(t, "ok")
    /\ UNCHANGED <<outer_vars, cfg_vars, env_vars, pc, result, kafka_error_rx, kafka_error,
                   ep_idx, ep, failed_ep, next_id, message, sent_total,
                   recv_total>>

\* the shutdown branch with continue in place of break
dedup_select_shutdown_continue ==
    /\ in_dedup("select")
    /\ shutdown_ready
    /\ shutdown' = "done"
    /\ pc' = "select"
    /\ UNCHANGED <<outer_vars, cfg_vars, metric_vars, result, prod_fatal, cons_fatal,
                   kafka_error_rx, kafka_error, ep_idx, ep, failed_ep,
                   send_tasks, next_id, produced, message, seen>>

\* main select!: `_ = &mut shutdown => break`
dedup_select_shutdown ==
    /\ in_dedup("select")
    /\ shutdown_ready
    /\ shutdown' = "done"
    /\ pc' = "drain"
    /\ UNCHANGED <<outer_vars, cfg_vars, metric_vars, result, prod_fatal, cons_fatal,
                   kafka_error_rx, kafka_error, ep_idx, ep, failed_ep,
                   send_tasks, next_id, produced, message, seen>>

\* a kafka_error_rx branch that goes on to the drain
dedup_select_kafka_error_then_drain ==
    /\ in_dedup("select")
    /\ kafka_error_rx_ready
    /\ kafka_error_rx' = "done"
    /\ kafka_error' = TRUE
    /\ pc' = "drain"
    /\ UNCHANGED <<outer_vars, cfg_vars, env_vars, metric_vars, result, ep_idx,
                   ep, failed_ep, send_tasks, next_id, produced, message, seen>>

\* main select!: `_ = &mut kafka_error_rx => { kafka_error = true; break }`,
\* then `if !kafka_error` skips the drain
dedup_select_kafka_error ==
    /\ in_dedup("select")
    /\ kafka_error_rx_ready
    /\ kafka_error_rx' = "done"
    /\ kafka_error' = TRUE
    /\ dedup_return_ok
    /\ UNCHANGED <<outer_vars, cfg_vars, env_vars, metric_vars, ep_idx, ep, failed_ep,
                   next_id, produced, message, seen>>

\* main select!: send_tasks.join_next() is Some(result): result??; continue
dedup_select_join ==
    /\ in_dedup("select")
    /\ \E t \in finished_tasks :
        IF t.st = "ok"
        THEN /\ send_tasks' = send_tasks \ {t}
             /\ UNCHANGED <<pc, result>>
        ELSE return_err
    /\ UNCHANGED <<outer_vars, cfg_vars, env_vars, metric_vars, kafka_error_rx, kafka_error,
                   ep_idx, ep, failed_ep, next_id, produced, message, seen>>

\* consumer.recv() is Ok(message): metrics::recv_inc()
dedup_recv ==
    /\ in_dedup("select")
    /\ recv_total < MaxUpdates
    /\ \E m \in Messages : message' = m
    /\ recv_total' = recv_total + 1
    /\ pc' = "match"
    /\ UNCHANGED <<outer_vars, cfg_vars, env_vars, result, kafka_error_rx, kafka_error,
                   ep_idx, ep, failed_ep, send_tasks, next_id, produced, seen,
                   sent_total, dedup_total>>

\* consumer.recv() is Err: the `?` after the select! returns it
dedup_recv_error ==
    /\ in_dedup("select")
    /\ return_err
    /\ UNCHANGED <<outer_vars, cfg_vars, env_vars, metric_vars, kafka_error_rx, kafka_error,
                   ep_idx, ep, failed_ep, next_id, produced, message, seen>>

\* the body of the loop after recv: parse the key, spawn the task, and check
\* the queue size
dedup_handle_message ==
    /\ in_dedup("match")
    /\ message' = NoUpdate
    /\ LET parsed == dedup_parse(message)
       IN  IF ~parsed.ok
           THEN \* continue
                /\ pc' = "select"
                /\ UNCHANGED <<send_tasks, next_id>>
           ELSE /\ send_tasks' = send_tasks \cup
                        {[id |-> next_id, st |-> "start", key |-> message.key,
                          payload |-> message.payload, slot |-> parsed.slot,
                          hash |-> parsed.bytes, kind |-> "Unknown"]}
                /\ next_id' = next_id + 1
                /\ pc' = IF queue_is_full(Cardinality(send_tasks'), kafka_queue_size)
                         THEN "queue_full" ELSE "select"
    /\ UNCHANGED <<outer_vars, cfg_vars, env_vars, metric_vars, result, kafka_error_rx,
                   kafka_error, ep_idx, ep, failed_ep, produced, seen>>

\* the select! taken when send_tasks.len() >= kafka_queue_size: shutdown
dedup_queue_full_shutdown ==
    /\ in_dedup("queue_full")
    /\ shutdown_ready
    /\ shutdown' = "done"
    /\ pc' = "drain"
    /\ UNCHANGED <<outer_vars, cfg_vars, metric_vars, result, prod_fatal, cons_fatal,
                   kafka_error_rx, kafka_error, ep_idx, ep, failed_ep,
                   send_tasks, next_id, produced, message, seen>>

\* the same select!: kafka_error_rx
dedup_queue_full_kafka_error ==
    /\ in_dedup("queue_full")
    /\ kafka_error_rx_ready
    /\ kafka_error_rx' = "done"
    /\ kafka_error' = TRUE
    /\ dedup_return_ok
    /\ UNCHANGED <<outer_vars, cfg_vars, env_vars, metric_vars, ep_idx, ep, failed_ep,
                   next_id, produced, message, seen>>

\* the same select!: join_next() returns a task; result??
dedup_queue_full_join ==
    /\ in_dedup("queue_full")
    /\ \E t \in finished_tasks :
        IF t.st = "ok"
        THEN /\ send_tasks' = send_tasks \ {t}
             /\ pc' = "select"
             /\ result' = result
        ELSE return_err
    /\ UNCHANGED <<outer_vars, cfg_vars, env_vars, metric_vars, kafka_error_rx, kafka_error,
                   ep_idx, ep, failed_ep, next_id, produced, message, seen>>

\* drain loop: join_next() is Some(result) => result??
dedup_drain_join ==
    /\ in_dedup("drain")
    /\ \E t \in finished_tasks :
        IF t.st = "ok"
        THEN /\ send_tasks' = send_tasks \ {t}
             /\ UNCHANGED <<pc, result>>
        ELSE return_err
    /\ UNCHANGED <<outer_vars, cfg_vars, env_vars, metric_vars, kafka_error_rx, kafka_error,
                   ep_idx, ep, failed_ep, next_id, produced, message, seen>>

\* a drain that returns without waiting for the JoinSet to empty
dedup_drain_done_early ==
    /\ in_dedup("drain")
    /\ dedup_return_ok
    /\ UNCHANGED <<outer_vars, cfg_vars, env_vars, metric_vars, kafka_error_rx, kafka_error,
                   ep_idx, ep, failed_ep, next_id, produced, message, seen>>

\* drain loop: join_next() is None => break; Ok(())
dedup_drain_done ==
    /\ in_dedup("drain")
    /\ send_tasks = {}
    /\ dedup_return_ok
    /\ UNCHANGED <<outer_vars, cfg_vars, env_vars, metric_vars, kafka_error_rx, kafka_error,
                   ep_idx, ep, failed_ep, next_id, produced, message, seen>>

\* drain loop: `_ = &mut kafka_error_rx => break`; Ok(())
dedup_drain_kafka_error ==
    /\ in_dedup("drain")
    /\ kafka_error_rx_ready
    /\ kafka_error_rx' = "done"
    /\ dedup_return_ok
    /\ UNCHANGED <<outer_vars, cfg_vars, env_vars, metric_vars, kafka_error, ep_idx, ep,
                   failed_ep, next_id, produced, message, seen>>

dedup ==
    \/ dedup_task_allowed
    \/ dedup_select_shutdown
    \/ dedup_select_kafka_error
    \/ dedup_select_join
    \/ dedup_recv
    \/ dedup_recv_error
    \/ dedup_handle_message
    \/ dedup_queue_full_shutdown
    \/ dedup_queue_full_kafka_error
    \/ dedup_queue_full_join
    \/ dedup_drain_join
    \/ dedup_drain_done
    \/ dedup_drain_kafka_error

\* --------------------------------------------------------------- kafka2grpc
in_kafka2grpc(at) == action = "kafka2grpc" /\ running /\ pc = at

\* the payloads on the topic kafka2grpc consumes: the encoding of a Slot
\* update of slot 7, of a Block update of slot 12, and bytes that are no
\* SubscribeUpdate
UpdatePayloads == {<<8, 2, 7>>, <<8, 4, 12>>, <<255, 1>>}

UpdateTags == <<"Account", "Slot", "Transaction", "Block">>

\* SubscribeUpdate::decode(payload)
SubscribeUpdate_decode(payload) ==
    IF Len(payload) = 3 /\ payload[1] = 8 /\ payload[2] \in 1..Len(UpdateTags)
    THEN [ok |-> TRUE,
          update |-> [kind |-> UpdateTags[payload[2]], slot |-> payload[3],
                      transaction |-> NoBody]]
    ELSE [ok |-> FALSE, update |-> NoUpdate]

\* the messages consumer.recv() can yield in kafka2grpc
Kafka2GrpcMessages ==
    [key : {Key1}, payload : UpdatePayloads \cup {NoPayload}]

\* the outcomes of a send on the broadcast sink: TRUE when a subscriber holds
\* a receiver, FALSE (an error) when none does
broadcast_send_outcomes == BOOLEAN

\* a loop that sends the update of every consumed message twice
grpc_tx_send_twice(sink, update, delivered) ==
    sink \o <<[update |-> update, ok |-> delivered],
              [update |-> update, ok |-> delivered]>>

\* `let _ = grpc_tx.send(message)`: the call, and whether a subscriber took
\* the value; the result is discarded
grpc_tx_send(sink, update, delivered) ==
    Append(sink, [update |-> update, ok |-> delivered])

\* select!: `_ = &mut shutdown => break`, then the await of grpc_shutdown
kafka2grpc_select_shutdown ==
    /\ in_kafka2grpc("select")
    /\ shutdown_ready
    /\ shutdown' = "done"
    /\ pc' = "grpc_shutdown"
    /\ UNCHANGED <<cfg_vars, metric_vars, result, prod_fatal, cons_fatal,
                   kafka_error_rx, kafka_error, ep_idx, ep, failed_ep,
                   send_tasks, next_id, produced, message, seen, outer_vars>>

\* select!: `_ = &mut kafka_error_rx => { kafka_error = true; break }`
kafka2grpc_select_kafka_error ==
    /\ in_kafka2grpc("select")
    /\ kafka_error_rx_ready
    /\ kafka_error_rx' = "done"
    /\ kafka_error' = TRUE
    /\ pc' = "grpc_shutdown"
    /\ UNCHANGED <<cfg_vars, env_vars, metric_vars, result, ep_idx, ep,
                   failed_ep, send_tasks, next_id, produced, message, seen,
                   outer_vars>>

\* select!: consumer.recv() is Ok(message); metrics::recv_inc()
kafka2grpc_recv ==
    /\ in_kafka2grpc("select")
    /\ recv_total < MaxUpdates
    /\ \E m \in Kafka2GrpcMessages : message' = m
    /\ recv_total' = recv_total + 1
    /\ pc' = "match"
    /\ UNCHANGED <<cfg_vars, env_vars, result, kafka_error_rx, kafka_error,
                   ep_idx, ep, failed_ep, send_tasks, next_id, produced, seen,
                   sent_total, dedup_total, outer_vars>>

\* a recv error that breaks to the await of the handle
kafka2grpc_recv_error_awaiting_handle ==
    /\ in_kafka2grpc("select")
    /\ pc' = "grpc_shutdown"
    /\ UNCHANGED <<cfg_vars, env_vars, metric_vars, result, kafka_error_rx,
                   kafka_error, ep_idx, ep, failed_ep, send_tasks, next_id,
                   produced, message, seen, outer_vars>>

\* select!: consumer.recv() is Err: `message?` returns it
kafka2grpc_recv_error ==
    /\ in_kafka2grpc("select")
    /\ return_err
    /\ UNCHANGED <<cfg_vars, env_vars, metric_vars, kafka_error_rx, kafka_error,
                   ep_idx, ep, failed_ep, next_id, produced, message, seen,
                   outer_vars>>

\* the body of the loop after recv: decode the payload and send the update
kafka2grpc_handle_message ==
    /\ in_kafka2grpc("match")
    /\ message' = NoUpdate
    /\ pc' = "select"
    /\ IF message.payload # NoPayload /\ SubscribeUpdate_decode(message.payload).ok
       THEN \E delivered \in broadcast_send_outcomes :
                grpc_tx' = grpc_tx_send(grpc_tx,
                               SubscribeUpdate_decode(message.payload).update,
                               delivered)
       ELSE grpc_tx' = grpc_tx
    /\ UNCHANGED <<cfg_vars, env_vars, metric_vars, result, kafka_error_rx,
                   kafka_error, ep_idx, ep, failed_ep, send_tasks, next_id,
                   produced, seen, grpc_shutdown, actix_srv, exit>>

\* the gRPC server task ends and the handle GrpcService::run returned
\* resolves, with Ok or with an error; the loop does not poll the handle
grpc_service_done ==
    /\ action = "kafka2grpc"
    /\ running
    /\ grpc_shutdown = "pending"
    /\ \E outcome \in {"Ok", "Err"} : grpc_shutdown' = outcome
    /\ UNCHANGED <<cfg_vars, env_vars, metric_vars, pc, result, kafka_error_rx,
                   kafka_error, ep_idx, ep, failed_ep, send_tasks, next_id,
                   produced, message, seen, grpc_tx, actix_srv, exit>>

\* `Ok(grpc_shutdown.await??)`: the handle has resolved; its result is the
\* stage's
kafka2grpc_grpc_shutdown_done ==
    /\ in_kafka2grpc("grpc_shutdown")
    /\ grpc_shutdown # "pending"
    /\ result' = grpc_shutdown
    /\ pc' = "returned"
    /\ UNCHANGED <<cfg_vars, env_vars, metric_vars, kafka_error_rx, kafka_error,
                   ep_idx, ep, failed_ep, send_tasks, next_id, produced,
                   message, seen, outer_vars>>

kafka2grpc ==
    \/ kafka2grpc_select_shutdown
    \/ kafka2grpc_select_kafka_error
    \/ kafka2grpc_recv
    \/ kafka2grpc_recv_error
    \/ kafka2grpc_handle_message
    \/ kafka2grpc_grpc_shutdown_done

\* --------------------------------------------------------------------- main
NoExit == -1

\* the exit status of a process whose main thread panicked
PanicExit == 101

\* the HTTP health server ends (its signal handler stopped it, or it failed)
actix_srv_done ==
    /\ actix_srv = "running"
    /\ exit = NoExit
    /\ \E outcome \in {"Ok", "Err"} : actix_srv' = outcome
    /\ UNCHANGED <<cfg_vars, env_vars, metric_vars, pc, result, kafka_error_rx,
                   kafka_error, ep_idx, ep, failed_ep, send_tasks, next_id,
                   produced, message, seen, grpc_tx, grpc_shutdown, exit>>

\* tokio::join!(actix_srv, biz) has both results: srv_res?; biz_res?; Ok(())
main_return ==
    /\ exit = NoExit
    /\ actix_srv # "running"
    /\ result \in {"Ok", "Err"}
    /\ exit' = IF actix_srv = "Ok" /\ result = "Ok" THEN 0 ELSE 1
    /\ UNCHANGED <<cfg_vars, env_vars, metric_vars, pc, result, kafka_error_rx,
                   kafka_error, ep_idx, ep, failed_ep, send_tasks, next_id,
                   produced, message, seen, grpc_tx, grpc_shutdown, actix_srv>>

\* the stage panicked while tokio::join! polled it: the panic unwinds main
main_panic ==
    /\ exit = NoExit
    /\ result = "panic"
    /\ exit' = PanicExit
    /\ UNCHANGED <<cfg_vars, env_vars, metric_vars, pc, result, kafka_error_rx,
                   kafka_error, ep_idx, ep, failed_ep, send_tasks, next_id,
                   produced, message, seen, grpc_tx, grpc_shutdown, actix_srv>>

\* ------------------------------------------------------------ specification
\* ArgsAction::run picks the stage; kafka_queue_size is at least 1 and the
\* endpoint list is never empty (split(',') yields at least one element)
Init ==
    /\ action \in {"grpc2kafka", "dedup", "kafka2grpc"}
    /\ kafka_queue_size \in IF action = "kafka2grpc" THEN {1} ELSE {1, MaxQueue}
    /\ ep_count \in IF action = "grpc2kafka" THEN {1, MaxEndpoints} ELSE {1}
    /\ pc = IF action = "grpc2kafka" THEN "connect" ELSE "select"
    /\ result = "running"
    /\ shutdown = "pending"
    /\ prod_fatal = FALSE
    /\ cons_fatal = FALSE
    /\ kafka_error_rx = "pending"
    /\ kafka_error = FALSE
    /\ ep_idx = 0
    /\ ep = 0
    /\ failed_ep = NoEp
    /\ send_tasks = {}
    /\ next_id = 0
    /\ produced = <<>>
    /\ message = NoUpdate
    /\ seen = {}
    /\ sent_total = [k \in MetricKinds |-> 0]
    /\ dedup_total = 0
    /\ recv_total = 0
    /\ grpc_tx = <<>>
    /\ grpc_shutdown = "pending"
    /\ actix_srv = "running"
    /\ exit = NoExit

\* the future action.run(config, kafka_config) alone
Next ==
    \/ create_shutdown
    \/ producer_fatal
    \/ consumer_fatal
    \/ task_send_done
    \/ grpc2kafka
    \/ dedup
    \/ kafka2grpc
    \/ grpc_service_done

Spec == Init /\ [][Next]_vars

\* the kafka2grpc stage alone
Kafka2GrpcInit == Init /\ action = "kafka2grpc"

Kafka2GrpcNext ==
    \/ create_shutdown
    \/ consumer_fatal
    \/ kafka2grpc
    \/ grpc_service_done

Kafka2GrpcSpec == Kafka2GrpcInit /\ [][Kafka2GrpcNext]_vars

\* main: tokio::join! of the health server and the stage
MainNext ==
    \/ Next
    \/ actix_srv_done
    \/ main_return
    \/ main_panic

MainSpec == Init /\ [][MainNext]_vars

\* the dedup stage alone, with the progress the runtime and the producer give:
\* a spawned task runs, a delivery future resolves, a ready join_next branch
\* is taken
DedupInit == Init /\ action = "dedup"

DedupNext ==
    \/ create_shutdown
    \/ producer_fatal
    \/ consumer_fatal
    \/ task_send_done
    \/ dedup

DedupFairSpec ==
    /\ DedupInit
    /\ [][DedupNext]_vars
    /\ WF_vars(task_send_done)
    /\ WF_vars(dedup_task_allowed)
    /\ WF_vars(dedup_drain_join)
    /\ WF_vars(dedup_drain_done)

\* the grpc2kafka stage alone, with the progress the runtime and the producer
\* give: thread::sleep returns, a delivery future resolves (acknowledged or
\* failed), a ready join_next branch of the drain is taken
Grpc2KafkaInit == Init /\ action = "grpc2kafka"

Grpc2KafkaNext ==
    \/ create_shutdown
    \/ producer_fatal
    \/ task_send_done
    \/ grpc2kafka

Grpc2KafkaFairSpec ==
    /\ Grpc2KafkaInit
    /\ [][Grpc2KafkaNext]_vars
    /\ WF_vars(grpc2kafka_backoff_done)
    /\ WF_vars(task_send_done)
    /\ WF_vars(grpc2kafka_drain_join)
    /\ WF_vars(grpc2kafka_drain_done)

\* ------------------------------------------------------------------- claims
in_flight == Cardinality(send_tasks)

no_failed_task == \A t \in send_tasks : t.st # "err"

\* C2 (as claimed): once grpc2kafka has taken the shutdown branch of a stream
\* select!, with no Kafka-fatal event and no failed publish, it is draining or
\* has returned Ok; it is never back at a connection attempt.
C2_ShutdownReturnsOk ==
    (/\ action = "grpc2kafka"
     /\ shutdown = "done"
     /\ ~prod_fatal
     /\ no_failed_task
     /\ result # "Err")
    => \/ pc = "drain" /\ result = "running"
       \/ pc = "returned" /\ result = "Ok"

\* C3 (as claimed): with the shutdown signal fired, a grpc2kafka that is
\* connecting, subscribing or in the backoff sleep takes no step but the return.
C3_ShutdownInterruptsBackoff ==
    [][(/\ action = "grpc2kafka"
        /\ shutdown = "fired"
        /\ pc \in {"connect", "subscribe", "backoff"}
        /\ pc' # pc)
       => pc' = "returned"]_vars

\* C4 (as claimed): when an attempt starts after the attempt on endpoint
\* failed_ep has failed, it uses endpoint (failed_ep + 1) mod ep_count.
C4_NextAttemptUsesNextEndpoint ==
    (/\ action = "grpc2kafka"
     /\ pc = "connect"
     /\ failed_ep # NoEp)
    => ep = (failed_ep + 1) % ep_count

\* C5: the endpoint cursor, and the index of the endpoint in use, lie in
\* [0, ep_count); with one endpoint the cursor is 0 in every state.
C5_CursorInRange ==
    /\ ep_idx \in 0..(ep_count - 1)
    /\ ep \in 0..(ep_count - 1)
    /\ ep_count = 1 => ep_idx = 0

\* one endpoint, in the backoff sleep after a failure advanced the cursor
C5_Witness ==
    /\ action = "grpc2kafka"
    /\ ep_count = 1
    /\ pc = "backoff"
    /\ failed_ep = 0
    /\ ep_idx = 0

pair_of(record) == <<record.slot, record.hash>>

\* C6: the dedup stage hands no two records with the same (slot, hash) to the
\* producer, however the tasks interleave; and when exactly two messages with
\* the same (slot, hash) were spawned and both tasks have completed (each has
\* counted a send or a drop), one was sent and one was dropped.
C6_AtMostOneRepublish ==
    action = "dedup" =>
        /\ \A i, j \in 1..Len(produced) :
               i # j => pair_of(produced[i]) # pair_of(produced[j])
        /\ (/\ next_id = 2
            /\ Cardinality(seen) = 1
            /\ sent_total["Unknown"] + dedup_total = 2)
           => sent_total["Unknown"] = 1 /\ dedup_total = 1

\* queue size 2, the same key consumed twice: one send, one drop
C6_Witness ==
    /\ action = "dedup"
    /\ kafka_queue_size = 2
    /\ next_id = 2
    /\ Cardinality(seen) = 1
    /\ sent_total["Unknown"] = 1
    /\ dedup_total = 1

acknowledged == sent_total["Transaction"] + sent_total["Unknown"]

publishable(u) ==
    /\ u.kind = "Transaction"
    /\ u.transaction # NoBody
    /\ TransactionInfo_decode(encode_to_vec(u.transaction)).ok

\* C8: in grpc2kafka a record is handed to the producer only while a
\* Transaction update with a present, decodable body is handled, and it is the
\* record of that update; handling any other update (Ping, Pong, the other
\* variants, a Transaction with no or an undecodable body) produces nothing,
\* spawns nothing and goes back to the stream select!.
C8_OnlyTransactionsPublished ==
    [][action = "grpc2kafka" =>
        /\ produced' # produced =>
              /\ pc = "match"
              /\ publishable(message)
              /\ Len(produced') = Len(produced) + 1
              /\ produced'[Len(produced')].src = message
        /\ (pc = "match" /\ pc' # pc /\ ~publishable(message)) =>
              /\ pc' = "select"
              /\ result' = "running"
              /\ UNCHANGED <<produced, send_tasks, ep_idx>>]_vars

\* a Ping is being handled after a record was produced on the same stream
C8_Witness ==
    /\ action = "grpc2kafka"
    /\ pc = "match"
    /\ message.kind = "Ping"
    /\ Len(produced) = 1
    /\ in_flight = 1

\* C9: every record grpc2kafka hands to the producer has the key
\* dec(slot) "_" lowercase-hex(sha256(payload)) for the slot of its source
\* update and the payload bytes of the record itself.
C9_KeyOfRecord ==
    action = "grpc2kafka" =>
        \A i \in 1..Len(produced) :
            LET r == produced[i]
                hex == const_hex_encode(Sha256_digest(r.payload))
            IN  /\ r.key = format_u64(r.src.slot) \o <<"_">> \o hex
                /\ r.payload # NoPayload

\* records of slot 7 and of slot 12 have been produced
C9_Witness ==
    /\ action = "grpc2kafka"
    /\ Len(produced) = 2
    /\ produced[1].src.slot = 12
    /\ produced[2].src.slot = 7

\* C10 (as claimed): once the shutdown signal has fired in the dedup stage, no
\* further message is consumed and no task is spawned.
C10_NoWorkAfterSignal ==
    [][(action = "dedup" /\ shutdown # "pending")
       => recv_total' = recv_total /\ next_id' = next_id]_vars

\* C10 (amended): once the dedup loop has taken the shutdown branch of a
\* select!, it is in the drain or has returned; from then on, while no Kafka
\* sideband fires, it consumes no message and spawns no task, returns Ok only
\* from an empty JoinSet and Err only for a failed task; and it does return.
C10_DrainAfterShutdownObserved ==
    /\ [][(action = "dedup" /\ shutdown' = "done" /\ ~prod_fatal' /\ ~cons_fatal')
          => /\ recv_total' = recv_total
             /\ next_id' = next_id
             /\ pc' \in {"drain", "returned"}
             /\ result' = "Ok" /\ result # "Ok" => send_tasks = {}
             /\ result' = "Err" /\ result # "Err" => ~no_failed_task]_vars
    /\ (action = "dedup" /\ shutdown = "done") ~> (result \in {"Ok", "Err"})

\* dedup returned Ok after a shutdown taken with the queue full
C10_Witness ==
    /\ action = "dedup"
    /\ shutdown = "done"
    /\ ~prod_fatal
    /\ ~cons_fatal
    /\ result = "Ok"
    /\ kafka_queue_size = 2
    /\ Len(produced) = 2
    /\ recv_total = 2

\* C11 (as claimed): once grpc2kafka has taken the producer-fatal branch of a
\* stream select! (kafka_error is set), the stage has left its state machine:
\* it has returned, and is at no connection attempt, subscription or stream.
C11_FatalExitsStateMachine ==
    (action = "grpc2kafka" /\ kafka_error) => pc = "returned"

\* the selects of the dedup stage that wait: main, queue-full, drain
dedup_waiting == action = "dedup" /\ running /\ pc \in {"select", "queue_full", "drain"}

\* C12 (as claimed): in the dedup stage, when the producer's fatal sideband has
\* fired and the consumer's has not, every blocking wait is woken: the
\* kafka_error_rx branch of the select! the loop waits in is ready.
C12_ProducerFatalWakesWaits ==
    (dedup_waiting /\ prod_fatal /\ ~cons_fatal /\ kafka_error_rx = "pending")
    => kafka_error_rx_ready

failed_tasks == {t \in send_tasks : t.st = "err"}

\* the sideband future the stage selects on has not completed and is not ready
no_kafka_fatal == kafka_error_rx = "pending" /\ ~kafka_error_rx_ready

\* C13: while the Kafka-fatal sideband has not fired, in grpc2kafka and in
\* dedup (a) a step that takes a failed publish task out of the JoinSet ends
\* the stage in that same step, with Err (or with the panic of a select! that
\* polls the completed shutdown future), so the stage never runs past the join
\* of a failed task and the first failed task joined ends it; (b) the stage
\* never returns Ok while a failed task is in the JoinSet; (c) the join of a
\* failed task in the main select!, the queue-full select! or the drain, with
\* no completed future polled, returns Err.
C13_SendErrorIsFatal ==
    [][no_kafka_fatal =>
        /\ (\E t \in failed_tasks : t \notin send_tasks')
              => /\ result' \in {"Err", "panic"}
                 /\ pc' = "returned"
                 /\ result' = "panic" => shutdown = "done"
        /\ result' = "Ok" => failed_tasks = {}
        /\ (failed_tasks # {} /\ pc = "drain" /\ pc' # pc) => result' = "Err"]_vars

\* grpc2kafka returned Err from the drain that followed a stream close, with
\* no Kafka-fatal event and no shutdown
C13_Witness ==
    /\ action = "grpc2kafka"
    /\ result = "Err"
    /\ failed_ep = 0
    /\ shutdown = "pending"
    /\ ~prod_fatal
    /\ Len(produced) = 2
    /\ acknowledged = 1

\* C14: in grpc2kafka (a) the step of a connect failure, a subscribe failure,
\* a stream error or an Ok(None) close leaves the stage running, in the
\* backoff sleep, in the drain or at the next attempt; (b) the backoff sleep
\* is always followed by a connection attempt; (c) the drain that follows a
\* stream error or close is followed by a connection attempt unless a publish
\* task failed (Err) or a select! polled the completed sideband (panic, only
\* after a Kafka-fatal event). The failures can repeat without bound.
C14_TransientErrorNeverFatal ==
    /\ [][(failed_ep' # failed_ep /\ failed_ep' # NoEp)
          => /\ result' = "running"
             /\ pc' \in {"backoff", "drain", "connect"}]_vars
    /\ (pc = "backoff") ~> (pc = "connect")
    /\ (pc = "drain" /\ failed_ep # NoEp)
          ~> (pc = "connect" \/ result = "Err" \/ (prod_fatal /\ result = "panic"))

\* a new attempt after the stream of endpoint 0 closed and its two records
\* were drained
C14_Witness ==
    /\ action = "grpc2kafka"
    /\ pc = "connect"
    /\ failed_ep = 0
    /\ shutdown = "pending"
    /\ ~prod_fatal
    /\ Len(produced) = 2
    /\ acknowledged = 2
    /\ send_tasks = {}

\* C15 (as claimed): in grpc2kafka an attempt that follows a failed attempt
\* (connect failure, subscribe failure, stream error, Ok(None) close) is
\* entered from the backoff sleep.
C15_BackoffBeforeReconnect ==
    [][(/\ action = "grpc2kafka"
        /\ pc # "connect"
        /\ pc' = "connect"
        /\ failed_ep' # NoEp)
       => pc = "backoff"]_vars

\* the hash part of a key is 64 hex characters
is_hex64(str) == Len(str) = 2 * DigestLen /\ \A i \in 1..Len(str) : IsHexDigit(str[i])

\* the slot part of a key is a decimal number
is_numeric(str) == str # <<>> /\ \A i \in 1..Len(str) : IsDigit(str[i])

\* a message of one of the classes of C16: key missing, not UTF-8, without
\* '_', with a non-numeric slot, with a hash part that is not 64 hex
\* characters, or payload missing
malformed(m) ==
    \/ m.key = NoKey
    \/ m.payload = NoPayload
    \/ String_from_utf8(m.key) = NoString
    \/ split_once(m.key) = <<>>
    \/ ~is_numeric(split_once(m.key)[1])
    \/ ~is_hex64(split_once(m.key)[2])

\* C16 (as claimed): when the dedup loop handles a consumed message of one of
\* these classes it spawns no task (so the backend's allowed() is not called
\* for it), changes neither the sent nor the dedup counter, and goes back to
\* its main select!.
C16_MalformedDropped ==
    [][(action = "dedup" /\ pc = "match" /\ pc' # pc /\ malformed(message))
       => /\ pc' = "select"
          /\ UNCHANGED <<send_tasks, next_id, seen, produced, sent_total,
                         dedup_total>>]_vars

\* C17: in the dedup stage (a) a task is spawned with the key and the payload
\* of the message being handled, unchanged; (b) a record is handed to the
\* producer only by a task for which the backend answered allowed == true,
\* it has the key and payload of that task and the kind Unknown, and the step
\* leaves the dedup counter alone; (c) a task for which the backend answered
\* allowed == false hands nothing to the producer and adds one to the dedup
\* counter only; (d) a task for which the backend answered allowed == true
\* hands its record to the producer unless send_result refuses it, which
\* fails the task; (e) acknowledged sends are counted under Unknown only.
C17_RepublishedUnchanged ==
    [][action = "dedup" =>
        /\ next_id' # next_id =>
              \E t \in send_tasks' \ send_tasks :
                  /\ t.id = next_id
                  /\ t.key = message.key
                  /\ t.payload = message.payload
        /\ produced' # produced =>
              \E t \in send_tasks :
                  /\ t.st = "start"
                  /\ dedup_allowed(seen, t.slot, t.hash)
                  /\ produced' = Append(produced,
                         [key |-> t.key, payload |-> t.payload, slot |-> t.slot,
                          hash |-> t.hash, kind |-> "Unknown", src |-> t.id])
                  /\ UNCHANGED <<dedup_total, sent_total>>
        /\ dedup_total' # dedup_total =>
              \E t \in send_tasks :
                  /\ t.st = "start"
                  /\ ~dedup_allowed(seen, t.slot, t.hash)
                  /\ dedup_total' = dedup_total + 1
                  /\ UNCHANGED <<produced, sent_total>>
        /\ \A t \in send_tasks :
              (/\ t.st = "start"
               /\ t \notin send_tasks'
               /\ result' = "running"
               /\ dedup_allowed(seen, t.slot, t.hash))
              => \/ produced' # produced
                 \/ [t EXCEPT !.st = "err"] \in send_tasks'
        /\ sent_total'["Transaction"] = 0]_vars

\* the message keyed with the 0x upper-case form was republished under that
\* key and acknowledged, and a second message of the same (slot, hash) was
\* counted as a duplicate
C17_Witness ==
    /\ action = "dedup"
    /\ Len(produced) = 1
    /\ produced[1].key = Key1Alias
    /\ produced[1].payload = Payload1
    /\ sent_total["Unknown"] = 1
    /\ dedup_total = 1

\* C18: in grpc2kafka (a) an update is taken from the stream only when no
\* update is being handled; (b) the step that handles a publishable update
\* either puts the record of that update at the end of the producer's queue
\* or returns Err; (c) nothing else changes the queue. So the record of an
\* update is enqueued before the next update of the stream arrives, and the
\* records of one subscription are enqueued in arrival order.
C18_EnqueuedInArrivalOrder ==
    [][action = "grpc2kafka" =>
        /\ (message' # message /\ message' # NoUpdate)
              => pc = "select" /\ message = NoUpdate /\ produced' = produced
        /\ (pc = "match" /\ pc' # pc /\ publishable(message))
              => \/ produced' = Append(produced, grpc2kafka_record(message))
                 \/ result' = "Err" /\ produced' = produced
        /\ produced' # produced => pc = "match" /\ publishable(message)]_vars

\* two records of one subscription, both still in flight: the update of
\* slot 7 arrived first
C18_Witness ==
    /\ action = "grpc2kafka"
    /\ Len(produced) = 2
    /\ in_flight = 2
    /\ produced[1].src.slot = 7
    /\ produced[2].src.slot = 12
    /\ \A t \in send_tasks : t.st = "sending"

\* the payload of a consumed message decodes as an update
decodable(m) == m.payload # NoPayload /\ SubscribeUpdate_decode(m.payload).ok

\* C19: in kafka2grpc (a) a message is taken from the consumer only when none
\* is being handled; (b) the step that handles a message whose payload
\* decodes calls grpc_tx.send() once, with the decoded update, after the
\* calls made for the messages consumed before it; (c) the step that handles
\* a message with no payload or an undecodable payload calls nothing;
\* (d) in either case, and whether or not a subscriber took the value, the
\* loop is back at its select! and the stage still runs; (e) nothing else
\* calls grpc_tx.send().
C19_PushedOnceInOrder ==
    [][action = "kafka2grpc" =>
        /\ (message' # message /\ message' # NoUpdate)
              => pc = "select" /\ message = NoUpdate /\ grpc_tx' = grpc_tx
        /\ (pc = "match" /\ pc' # pc /\ decodable(message))
              => \E delivered \in BOOLEAN :
                     grpc_tx' = Append(grpc_tx,
                         [update |-> SubscribeUpdate_decode(message.payload).update,
                          ok |-> delivered])
        /\ (pc = "match" /\ pc' # pc /\ ~decodable(message))
              => grpc_tx' = grpc_tx
        /\ (pc = "match" /\ pc' # pc)
              => pc' = "select" /\ result' = "running"
        /\ grpc_tx' # grpc_tx => pc = "match"]_vars

\* two messages consumed: one was skipped, the push of the other found no
\* subscriber, and the loop is at its select!
C19_Witness ==
    /\ action = "kafka2grpc"
    /\ result = "running"
    /\ pc = "select"
    /\ recv_total = 2
    /\ Len(grpc_tx) = 1
    /\ ~grpc_tx[1].ok

\* C20 (as claimed): when the process has exited, the health server and the
\* stage have both terminated, and the exit status is non-zero exactly when
\* the health server or the stage returned an error.
C20_ExitAfterBoth ==
    exit # NoExit =>
        /\ actix_srv # "running"
        /\ result # "running"
        /\ exit # 0 <=> (actix_srv = "Err" \/ result = "Err")

\* C21 (as claimed): in grpc2kafka (a) while a stream is open the cursor names
\* the endpoint the stream is connected to; (b) the cursor changes only in
\* the step of a failure (connect failure, subscribe failure, stream error,
\* Ok(None) close); (c) handling an update leaves the cursor unchanged and
\* starts no sleep.
C21_CursorAdvancesOnlyOnFailure ==
    /\ []((action = "grpc2kafka" /\ pc \in {"select", "match", "queue_full"})
            => ep_idx = ep)
    /\ [][action = "grpc2kafka" =>
            /\ ep_idx' # ep_idx
                  => failed_ep' # failed_ep /\ failed_ep' # NoEp
            /\ pc = "match" => ep_idx' = ep_idx /\ pc' # "sleep_stream"]_vars

\* C22: in grpc2kafka the JoinSet is empty whenever the stage is at a
\* connection attempt, at the subscription that follows it or in the backoff
\* sleep: the tasks of a stream that ended were joined by the drain or
\* dropped with the JoinSet before the next attempt.
C22_NoTaskOutlivesStream ==
    (action = "grpc2kafka" /\ pc \in {"connect", "subscribe", "backoff"})
    => send_tasks = {}

\* a new attempt after a Kafka-fatal event: the two records of the stream
\* were handed to the producer, none was acknowledged, their tasks are gone
C22_Witness ==
    /\ action = "grpc2kafka"
    /\ result = "running"
    /\ pc = "connect"
    /\ kafka_error
    /\ Len(produced) = 2
    /\ acknowledged = 0
    /\ send_tasks = {}

\* C23: in the dedup stage the step in which a select! (main, queue-full or
\* drain) takes the kafka_error_rx branch returns Ok(()) and drops the
\* JoinSet, whatever it holds, also tasks that are still sending or have
\* failed: nothing is joined, no counter changes, and no Err is reported.
C23_FatalReturnsOkUnjoined ==
    [][(action = "dedup" /\ kafka_error_rx' # kafka_error_rx)
       => /\ pc \in {"select", "queue_full", "drain"}
          /\ result' = "Ok"
          /\ pc' = "returned"
          /\ send_tasks' = {}
          /\ UNCHANGED <<sent_total, dedup_total, produced, seen>>]_vars

\* dedup returned Ok on the sideband with no shutdown: two records were
\* handed to the producer, none was acknowledged, so neither task was joined
C23_Witness ==
    /\ action = "dedup"
    /\ result = "Ok"
    /\ kafka_error_rx = "done"
    /\ shutdown = "pending"
    /\ Len(produced) = 2
    /\ acknowledged = 0

\* C24: in kafka2grpc (a) the stage awaits the server's shutdown handle only
\* after its select! took the shutdown or the kafka_error_rx branch; (b) the
\* stage ends either from that await, with the result of the handle, or from
\* its select! with Err (the error of consumer.recv()), in the same step and
\* whether or not the handle has resolved; (c) the handle's resolving alone
\* does not end the stage.
C24_HandleAwaitedOnExitPaths ==
    /\ []((action = "kafka2grpc" /\ pc = "grpc_shutdown")
            => shutdown = "done" \/ kafka_error)
    /\ [][(action = "kafka2grpc" /\ result' # result)
          => \/ /\ pc = "grpc_shutdown"
                /\ grpc_shutdown # "pending"
                /\ result' = grpc_shutdown
             \/ /\ pc = "select"
                /\ result' = "Err"
                /\ UNCHANGED <<shutdown, kafka_error, grpc_shutdown>>]_vars

\* consumer.recv() failed after two messages: the stage returned the error
\* while the handle was still pending, with no shutdown and no fatal event
C24_Witness ==
    /\ action = "kafka2grpc"
    /\ result = "Err"
    /\ grpc_shutdown = "pending"
    /\ shutdown = "pending"
    /\ ~kafka_error
    /\ recv_total = 2

====
